---- MODULE Spec2Model ----
(***************************************************************************)
(* grugchat full node: the Ledger (state.rs), the transaction model        *)
(* (tx.rs), the mempool / batch poster and the DA-layer sync engine        *)
(* (fullnode.rs), and the query handlers (webserver.rs).                   *)
(***************************************************************************)
EXTENDS Integers, Sequences, FiniteSets, TLC

\* ------------------------------------------------------------------ bounds
MaxHist == 3      \* process_tx calls of the direct Ledger driver
MaxHead == 3      \* DA-layer heights produced
MaxEnqueue == 3   \* transactions submitted to the mempool
MaxFlush == 3     \* ticks of the batch-posting timer that are counted
\* mpsc::channel(100): the capacity of the live-sync queue, scaled to the
\* heights the model produces so that the queue fills.
ChannelCapacity == 2

\* --------------------------------------------------------------- data sets
Keys == {"k1", "k2"}
Ids == {"alice", "bob"}
ChannelNames == {"general", "random"}
ContentsSet == {"hi", "yo"}

VARIABLES
    state,                  \* FullNode.state: the Ledger [users, channels]
    stateLock,              \* holder of the Ledger mutex (a task, a query), or "free"
    hist,                   \* direct driver: <<[tx, res]>> of process_tx calls
    chain,                  \* DA layer: chain[h] is the namespace's block at height h
    pc,                     \* position of the catch-up and live-sync tasks
    network_height,         \* H read by sync_from_genesis
    height,                 \* loop variable of sync_from_genesis
    fetched,                \* heights asked of blob_get_all, in call order
    genesis_sync_complete,  \* the AtomicBool
    subscriberPc,           \* position of the subscription task
    subNext,                \* next height the subscription stream yields
    delivered,              \* what the stream has yielded with blobs, in order
    queue,                  \* the mpsc channel: <<[height, blobs]>>
    todo,                   \* per task: transactions of its block not yet applied
    blockLog,               \* process_l1_block calls: <<[by, height, txs, results]>>
    startSyncPc,            \* position of start_sync
    joined,                 \* handles whose output try_join! of start_sync holds
    startPc,                \* position of start
    startJoined,            \* handles whose output try_join! of start holds
    pending_transactions,   \* the mempool: submissions not yet drained
    mempoolLock,            \* holder of the mempool mutex, or "free"
    enqPc,                  \* per request handler: position in queue_transaction
    enqTx,                  \* per request handler: the submission it carries
    nextId,                 \* submissions are numbered as they are accepted
    flushPc,                \* position of post_pending_batch
    ticks,                  \* ticks of the batch-posting interval, counted up to MaxFlush
    batch,                  \* the batch post_pending_batch has drained
    drained,                \* every batch drained so far, in order
    published,              \* every batch blob_submit accepted, in order
    failed,                 \* drained[b] for b in failed: its publication returned Err
    enqAt,                  \* per pushed submission: batches drained before its push
    overtaken,              \* submissions whose push waited for a flush to finish
    verified                \* the last Signature::verify call: <<[sig, pk, msg, res]>>

ledgerVars == <<state, stateLock, hist>>
syncVars == <<chain, pc, network_height, height, fetched, genesis_sync_complete,
              subscriberPc, subNext, delivered, queue, todo, blockLog, startSyncPc,
              joined, startPc, startJoined>>
mempoolVars == <<pending_transactions, mempoolLock, enqPc, enqTx, nextId, flushPc,
                 ticks, batch, drained, published, failed, enqAt, overtaken>>
vars == <<ledgerVars, syncVars, mempoolVars, verified>>

\* ------------------------------------------------------------------- tx.rs
\* A signature's bytes: their length, and for 64 well-formed bytes which key
\* produced them over which message.
EmptySignature == [len |-> 0, signer |-> "", over |-> <<>>]

Register(user, id, signature) ==
    [kind |-> "Register", user |-> user, id |-> id, contents |-> "",
     channel |-> "", signature |-> signature]

SendMessage(user, contents, channel, signature) ==
    [kind |-> "SendMessage", user |-> user, id |-> "", contents |-> contents,
     channel |-> channel, signature |-> signature]

without_signature(tx) == [tx EXCEPT !.signature = EmptySignature]

\* bincode of a Transaction: variant index, then the fields in declared order.
Serialize(tx) ==
    IF tx.kind = "SendMessage"
    THEN <<0, tx.user, tx.contents, tx.channel, tx.signature>>
    ELSE <<1, tx.user, tx.id, tx.signature>>

\* What the client does (main.rs): sign the serialized unsigned transaction.
Sign(key, msg) == [len |-> 64, signer |-> key, over |-> msg]

\* A PublicKey wraps any Vec<u8>; this one is not 32 bytes long.
ShortKey == "k"

\* VerifyingKey::from_bytes takes exactly 32 bytes.
PublicKeyLen(pk) == IF pk \in Keys THEN 32 ELSE 0

\* Signature::verify: the conversions unwrap, so a wrong length aborts.
SignatureVerify(sig, pk, msg) ==
    IF PublicKeyLen(pk) # 32 \/ sig.len # 64 THEN "panic"
    ELSE IF sig.signer = pk /\ sig.over = msg THEN "true" ELSE "false"

Signed(tx, key) ==
    [tx EXCEPT !.signature = Sign(key, Serialize(without_signature(tx)))]

Verifies(tx) ==
    SignatureVerify(tx.signature, tx.user, Serialize(without_signature(tx))) = "true"

\* ---------------------------------------------------------------- state.rs
Message(user_id, contents) == [user_id |-> user_id, contents |-> contents]

NewState == [users |-> <<>>, channels |-> <<>>]

MapInsert(m, k, v) == [x \in (DOMAIN m) \cup {k} |-> IF x = k THEN v ELSE m[x]]

\* validate_tx without its SendMessage arm.
validate_tx_NoSendCheck(st, tx) ==
    IF tx.kind = "SendMessage" THEN "ok"
    ELSE IF tx.user \in DOMAIN st.users THEN "user already exists" ELSE "ok"

validate_tx(st, tx) ==
    IF tx.kind = "SendMessage"
    THEN IF tx.user \notin DOMAIN st.users THEN "user not yet registered" ELSE "ok"
    ELSE IF tx.user \in DOMAIN st.users THEN "user already exists" ELSE "ok"

\* process_tx whose Register arm inserts without looking (HashMap::insert
\* replaces the value of a key that is present).
process_tx_RegisterOverwrites(st, tx) ==
    IF tx.kind = "Register"
    THEN [st |-> [st EXCEPT !.users = MapInsert(st.users, tx.user, tx.id)], res |-> "ok"]
    ELSE IF tx.user \notin DOMAIN st.users
         THEN [st |-> st, res |-> "user not yet registered"]
         ELSE [st |-> st, res |-> "panic"]

\* The result of process_tx: the state it leaves and what it returned; "panic"
\* is the unwrap of channels.get_mut on a channel that is not in the map.
process_tx(st, tx) ==
    LET v == validate_tx(st, tx) IN
    IF v # "ok" THEN [st |-> st, res |-> v]
    ELSE IF tx.kind = "SendMessage"
    THEN IF tx.channel \notin DOMAIN st.channels
         THEN [st |-> st, res |-> "panic"]
         ELSE LET msg == Message(st.users[tx.user], tx.contents)
                  messages == st.channels[tx.channel]
              IN  [st |-> [st EXCEPT !.channels =
                              IF messages = <<>>
                              THEN MapInsert(st.channels, tx.channel, <<msg>>)
                              ELSE MapInsert(st.channels, tx.channel,
                                             Append(messages, msg))],
                   res |-> "ok"]
    ELSE IF tx.user \in DOMAIN st.users
         THEN [st |-> st, res |-> "user already exists"]
         ELSE [st |-> [st EXCEPT !.users = MapInsert(st.users, tx.user, tx.id)],
               res |-> "ok"]

\* What the two read methods return.
list_channels(st) == DOMAIN st.channels

read_channel(st, channel) ==
    IF channel \in DOMAIN st.channels
    THEN [some |-> TRUE, messages |-> st.channels[channel]]
    ELSE [some |-> FALSE, messages |-> <<>>]

\* ------------------------------------------------- the transactions used
TxSet ==
    {Signed(Register(u, i, EmptySignature), k) : u \in Keys, i \in Ids, k \in Keys}
    \cup
    UNION {{Signed(SendMessage(u, c, ch, EmptySignature), k) : u \in Keys, k \in Keys}
           : c \in ContentsSet, ch \in ChannelNames}

\* ------------------------------------------------------------- fullnode.rs
StartHeight == 1
Tasks == {"genesis", "incoming"}
Handlers == {"h1", "h2"}

\* A blob's payload: bincode of a Batch, bincode of one Transaction, or bytes
\* that are neither.
EncodeBatch(txs) == [enc |-> "batch", txs |-> txs]
EncodeTransaction(tx) == [enc |-> "tx", txs |-> <<tx>>]
ForeignBlob == [enc |-> "junk", txs |-> <<>>]

\* A conversion that knows the Batch encoding only.
BatchTryFrom_NoFallback(blob) ==
    IF blob.enc = "batch" THEN [ok |-> TRUE, batch |-> blob.txs]
    ELSE [ok |-> FALSE, batch |-> <<>>]

\* impl TryFrom<&Blob> for Batch: the payload is read as a Batch; when that
\* fails, as one Transaction; when that fails too, the conversion fails.
BatchTryFrom(blob) ==
    IF blob.enc = "batch" THEN [ok |-> TRUE, batch |-> blob.txs]
    ELSE IF blob.enc = "tx" THEN [ok |-> TRUE, batch |-> <<blob.txs[1]>>]
    ELSE [ok |-> FALSE, batch |-> <<>>]

\* process_l1_block, lines 110-116: flat_map over the blobs in order.
RECURSIVE DecodeBlobs(_)
DecodeBlobs(blobs) ==
    IF blobs = <<>> THEN <<>>
    ELSE LET b == BatchTryFrom(Head(blobs))
         IN  (IF b.ok THEN b.batch ELSE <<>>) \o DecodeBlobs(Tail(blobs))

\* What blob_get_all / the subscription report for one height.
NoBlobs == [some |-> FALSE, blobs |-> <<>>]
SomeBlobs(blobs) == [some |-> TRUE, blobs |-> blobs]

RegAlice == Signed(Register("k1", "alice", EmptySignature), "k1")
RegAliceAgain == Signed(Register("k1", "bob", EmptySignature), "k1")
RegBobForged == Signed(Register("k2", "bob", EmptySignature), "k1")
SendBob == Signed(SendMessage("k2", "yo", "general", EmptySignature), "k2")
SendAlice == Signed(SendMessage("k1", "hi", "general", EmptySignature), "k1")

BlockSet ==
    { NoBlobs,
      SomeBlobs(<<EncodeBatch(<<RegAlice, RegAliceAgain>>),
                  EncodeTransaction(RegBobForged)>>),
      SomeBlobs(<<ForeignBlob, EncodeBatch(<<SendBob, RegAlice, SendAlice>>)>>) }

Init ==
    /\ state = NewState
    /\ stateLock = "free"
    /\ hist = <<>>
    /\ chain = <<>>
    /\ pc = [t \in Tasks |-> "idle"]
    /\ network_height = 0
    /\ height = 0
    /\ fetched = <<>>
    /\ genesis_sync_complete = FALSE
    /\ subscriberPc = "idle"
    /\ subNext = 0
    /\ delivered = <<>>
    /\ queue = <<>>
    /\ todo = [t \in Tasks |-> <<>>]
    /\ blockLog = <<>>
    /\ startSyncPc = "idle"
    /\ joined = {}
    /\ startPc = "init"
    /\ startJoined = {}
    /\ pending_transactions = <<>>
    /\ mempoolLock = "free"
    /\ enqPc = [c \in Handlers |-> "idle"]
    /\ enqTx = [c \in Handlers |-> 0]
    /\ nextId = 1
    /\ flushPc = "idle"
    /\ ticks = 0
    /\ batch = <<>>
    /\ drained = <<>>
    /\ published = <<>>
    /\ failed = {}
    /\ enqAt = <<>>
    /\ overtaken = {}
    /\ verified = <<>>

\* ---- the DA layer
DaNewBlock ==
    /\ Len(chain) < MaxHead
    /\ \E b \in BlockSet : chain' = Append(chain, b)
    /\ UNCHANGED <<verified, mempoolVars, ledgerVars, pc, network_height,
                   height, fetched, genesis_sync_complete, subscriberPc,
                   subNext, delivered, queue, todo, blockLog, startSyncPc,
                   joined, startPc, startJoined>>

\* ---- start and start_sync
\* The node is started against a DA network that has a head.
Start ==
    /\ startPc = "init"
    /\ hist = <<>>
    /\ Len(chain) >= 1
    /\ startPc' = "joining"
    /\ startSyncPc' = "start"
    /\ UNCHANGED <<verified, mempoolVars, ledgerVars, chain, pc, network_height,
                   height, fetched, genesis_sync_complete, subscriberPc,
                   subNext, delivered, queue, todo, blockLog, joined,
                   startJoined>>

StartSyncSpawn ==
    /\ startSyncPc = "start"
    /\ startSyncPc' = "joining"
    /\ pc' = [genesis |-> "head", incoming |-> "start"]
    /\ UNCHANGED <<verified, mempoolVars, ledgerVars, chain, network_height,
                   height, fetched, genesis_sync_complete, subscriberPc,
                   subNext, delivered, queue, todo, blockLog, joined, startPc,
                   startJoined>>

Finished(t) ==
    IF t = "genesis" THEN pc[t] \in {"done", "failed", "panicked"}
    ELSE pc[t] \in {"returned_ok", "returned_err", "panicked"}

\* try_join!(genesis_sync, incoming_sync)?: a handle that yields Err(JoinError)
\* (its task panicked) ends the join with that error; a handle that yields
\* Ok(output) is done, whatever the output.
StartSyncJoin(t) ==
    /\ startSyncPc = "joining"
    /\ t \notin joined
    /\ Finished(t)
    /\ IF pc[t] = "panicked"
       THEN /\ startSyncPc' = "err"
            /\ UNCHANGED joined
       ELSE /\ joined' = joined \cup {t}
            /\ startSyncPc' = IF joined' = Tasks THEN "ok" ELSE "joining"
    /\ UNCHANGED <<verified, mempoolVars, ledgerVars, chain, pc, network_height,
                   height, fetched, genesis_sync_complete, subscriberPc,
                   subNext, delivered, queue, todo, blockLog, startPc,
                   startJoined>>

\* try_join!(sync_handle, batch_posting_handle, server_handle)?: the sync
\* handle yields Ok(output of start_sync); the other two tasks do not return.
StartJoinSync ==
    /\ startPc = "joining"
    /\ startSyncPc \in {"ok", "err"}
    /\ "sync" \notin startJoined
    /\ startJoined' = startJoined \cup {"sync"}
    /\ UNCHANGED <<verified, mempoolVars, ledgerVars, chain, pc, network_height,
                   height, fetched, genesis_sync_complete, subscriberPc,
                   subNext, delivered, queue, todo, blockLog, startSyncPc,
                   joined, startPc>>

\* ---- process_l1_block, run by the catch-up task and by the live-sync consumer
\* lines 110-118: decode the blobs, then take the Ledger lock.
ProcessL1BlockLock(t) ==
    /\ pc[t] = "lock"
    /\ stateLock = "free"
    /\ stateLock' = t
    /\ pc' = [pc EXCEPT ![t] = "apply"]
    /\ UNCHANGED <<verified, mempoolVars, state, hist, chain, network_height,
                   height, fetched, genesis_sync_complete, subscriberPc,
                   subNext, delivered, queue, todo, blockLog, startSyncPc,
                   joined, startPc, startJoined>>

LogResult(log, tx, res) ==
    [log EXCEPT ![Len(log)].results = Append(@, [tx |-> tx, res |-> res])]

\* A loop that gives up on the block at the first Err.
RemainingAfter_StopOnErr(txs, res) == IF res = "ok" THEN Tail(txs) ELSE <<>>

\* for_each goes on with the rest of the block whatever process_tx returned.
RemainingAfter(txs, res) == Tail(txs)

\* lines 119-122: one turn of for_each. An Err of process_tx is printed; a panic
\* of process_tx unwinds the task, which drops the lock guard.
ProcessL1BlockApply(t) ==
    /\ pc[t] = "apply"
    /\ stateLock = t
    /\ todo[t] # <<>>
    /\ LET tx == Head(todo[t])
           r == process_tx(state, tx)
       IN  /\ blockLog' = LogResult(blockLog, tx, r.res)
           /\ IF r.res = "panic"
              THEN /\ pc' = [pc EXCEPT ![t] = "panicked"]
                   /\ stateLock' = "free"
                   /\ todo' = [todo EXCEPT ![t] = <<>>]
                   /\ UNCHANGED state
              ELSE /\ state' = r.st
                   /\ todo' = [todo EXCEPT ![t] = RemainingAfter(@, r.res)]
                   /\ UNCHANGED <<pc, stateLock>>
    /\ UNCHANGED <<verified, mempoolVars, hist, chain, network_height, height,
                   fetched, genesis_sync_complete, subscriberPc, subNext,
                   delivered, queue, startSyncPc, joined, startPc, startJoined>>

\* line 123: the guard is dropped; the caller goes on with its loop.
ProcessL1BlockReturn(t) ==
    /\ pc[t] = "apply"
    /\ stateLock = t
    /\ todo[t] = <<>>
    /\ stateLock' = "free"
    /\ IF t = "genesis"
       THEN /\ height' = height + 1
            /\ pc' = [pc EXCEPT ![t] = "loop"]
       ELSE /\ pc' = [pc EXCEPT ![t] = "recv"]
            /\ UNCHANGED height
    /\ UNCHANGED <<verified, mempoolVars, state, hist, chain, network_height,
                   fetched, genesis_sync_complete, subscriberPc, subNext,
                   delivered, queue, todo, blockLog, startSyncPc, joined,
                   startPc, startJoined>>

NewBlockEntry(t, h, txs) == [by |-> t, height |-> h, txs |-> txs, results |-> <<>>]

\* ---- sync_from_genesis
\* line 126-127
GenesisQueryHead ==
    /\ pc["genesis"] = "head"
    /\ \/ /\ network_height' = Len(chain)
          /\ height' = StartHeight
          /\ pc' = [pc EXCEPT !["genesis"] = "loop"]
       \/ /\ pc' = [pc EXCEPT !["genesis"] = "failed"]
          /\ UNCHANGED <<network_height, height>>
    /\ UNCHANGED <<verified, mempoolVars, ledgerVars, chain, fetched,
                   genesis_sync_complete, subscriberPc, subNext, delivered,
                   queue, todo, blockLog, startSyncPc, joined, startPc,
                   startJoined>>

\* The range start..=head.
GenesisRange_Inclusive(start, head) == start .. head

\* The heights the loop of line 128 visits.
GenesisRange(start, head) == {h \in start .. head : h < head}

\* lines 128-133: one turn of the loop, up to the call of process_l1_block.
GenesisFetch ==
    /\ pc["genesis"] = "loop"
    /\ height \in GenesisRange(StartHeight, network_height)
    /\ \/ /\ fetched' = Append(fetched, height)
          /\ IF chain[height].some
             THEN /\ todo' = [todo EXCEPT !["genesis"] = DecodeBlobs(chain[height].blobs)]
                  /\ blockLog' = Append(blockLog,
                                        NewBlockEntry("genesis", height, todo'["genesis"]))
                  /\ pc' = [pc EXCEPT !["genesis"] = "lock"]
                  /\ UNCHANGED height
             ELSE /\ height' = height + 1
                  /\ UNCHANGED <<todo, blockLog, pc>>
       \/ /\ pc' = [pc EXCEPT !["genesis"] = "failed"]
          /\ UNCHANGED <<fetched, todo, blockLog, height>>
    /\ UNCHANGED <<verified, mempoolVars, ledgerVars, chain, network_height,
                   genesis_sync_complete, subscriberPc, subNext, delivered,
                   queue, startSyncPc, joined, startPc, startJoined>>

\* line 135
GenesisStoreComplete ==
    /\ pc["genesis"] = "loop"
    /\ height \notin GenesisRange(StartHeight, network_height)
    /\ genesis_sync_complete' = TRUE
    /\ pc' = [pc EXCEPT !["genesis"] = "notify"]
    /\ UNCHANGED <<verified, mempoolVars, ledgerVars, chain, network_height,
                   height, fetched, subscriberPc, subNext, delivered, queue,
                   todo, blockLog, startSyncPc, joined, startPc, startJoined>>

\* Notify::notify_waiters wakes the Notified futures that exist at the call and
\* stores no permit.
NotifyWaiters(p) ==
    [t \in Tasks |-> IF t = "genesis" THEN "done"
                     ELSE IF p[t] = "waiting" THEN "recv" ELSE p[t]]

\* lines 136-137
GenesisNotify ==
    /\ pc["genesis"] = "notify"
    /\ pc' = NotifyWaiters(pc)
    /\ UNCHANGED <<verified, mempoolVars, ledgerVars, chain, network_height,
                   height, fetched, genesis_sync_complete, subscriberPc,
                   subNext, delivered, queue, todo, blockLog, startSyncPc,
                   joined, startPc, startJoined>>

\* ---- sync_incoming_blocks
\* A consumer that does not wait for the signal.
Notified_NoWait(complete) == "recv"

\* Where the consumer stands once line 181 has created its Notified future.
Notified(complete) == "waiting"

\* lines 152-181: the channel, the spawn of the subscription task, notified().
IncomingStart ==
    /\ pc["incoming"] = "start"
    /\ subscriberPc' = "subscribe"
    /\ pc' = [pc EXCEPT !["incoming"] = Notified(genesis_sync_complete)]
    /\ UNCHANGED <<verified, mempoolVars, ledgerVars, chain, network_height,
                   height, fetched, genesis_sync_complete, subNext, delivered,
                   queue, todo, blockLog, startSyncPc, joined, startPc,
                   startJoined>>

\* A receive that hands out the newest item.
Recv_Newest(q) == [item |-> q[Len(q)], rest |-> SubSeq(q, 1, Len(q) - 1)]

\* rx.recv() on a channel that holds items: the oldest one.
Recv(q) == [item |-> Head(q), rest |-> Tail(q)]

\* lines 184-185: recv yields the oldest item; process_l1_block is called on it.
IncomingRecv ==
    /\ pc["incoming"] = "recv"
    /\ queue # <<>>
    /\ todo' = [todo EXCEPT !["incoming"] = DecodeBlobs(Recv(queue).item.blobs)]
    /\ blockLog' = Append(blockLog,
                          NewBlockEntry("incoming", Recv(queue).item.height,
                                        todo'["incoming"]))
    /\ queue' = Recv(queue).rest
    /\ pc' = [pc EXCEPT !["incoming"] = "lock"]
    /\ UNCHANGED <<verified, mempoolVars, ledgerVars, chain, network_height,
                   height, fetched, genesis_sync_complete, subscriberPc,
                   subNext, delivered, startSyncPc, joined, startPc, startJoined>>

SenderDropped == subscriberPc \in {"panicked", "ended"}

\* lines 184 and 188: recv yields None once the sender is gone and the queue is
\* empty; the function returns what the subscription handle yields.
IncomingRecvClosed ==
    /\ pc["incoming"] = "recv"
    /\ queue = <<>>
    /\ SenderDropped
    /\ pc' = [pc EXCEPT !["incoming"] =
                 IF subscriberPc = "panicked" THEN "returned_err" ELSE "returned_ok"]
    /\ UNCHANGED <<verified, mempoolVars, ledgerVars, chain, network_height,
                   height, fetched, genesis_sync_complete, subscriberPc,
                   subNext, delivered, queue, todo, blockLog, startSyncPc,
                   joined, startPc, startJoined>>

\* ---- the subscription task, lines 157-177
\* lines 158-161: the handshake; its failure is unwrapped.
Subscribe ==
    /\ subscriberPc = "subscribe"
    /\ \/ /\ subscriberPc' = "streaming"
          /\ subNext' \in {Len(chain), Len(chain) + 1}
       \/ /\ subscriberPc' = "panicked"
          /\ UNCHANGED subNext
    /\ UNCHANGED <<verified, mempoolVars, ledgerVars, chain, pc, network_height,
                   height, fetched, genesis_sync_complete, delivered, queue,
                   todo, blockLog, startSyncPc, joined, startPc, startJoined>>

ReceiverDropped == pc["incoming"] \in {"returned_ok", "returned_err", "panicked"}

\* lines 163-166: the stream yields the blobs of its next height; None for a
\* height is passed over. (An Err item is printed and changes nothing.)
SubscriberNext ==
    /\ subscriberPc = "streaming"
    /\ subNext <= Len(chain)
    /\ subNext' = subNext + 1
    /\ IF chain[subNext].some
       THEN /\ delivered' = Append(delivered,
                                   [height |-> subNext,
                                    beforeSignal |-> ~genesis_sync_complete,
                                    queueFull |-> Len(queue) = ChannelCapacity])
            /\ subscriberPc' = "sending"
       ELSE UNCHANGED <<delivered, subscriberPc>>
    /\ UNCHANGED <<verified, mempoolVars, ledgerVars, chain, pc, network_height,
                   height, fetched, genesis_sync_complete, queue, todo,
                   blockLog, startSyncPc, joined, startPc, startJoined>>

\* The blobs the subscription task holds between next() and send().
InHand ==
    [height |-> delivered[Len(delivered)].height,
     blobs |-> chain[delivered[Len(delivered)].height].blobs]

\* A send that gives up on a full queue, as try_send would.
SubscriberSend_DropsWhenFull ==
    /\ subscriberPc = "sending"
    /\ IF ReceiverDropped
       THEN /\ subscriberPc' = "ended"
            /\ UNCHANGED queue
       ELSE /\ queue' = IF Len(queue) < ChannelCapacity
                        THEN Append(queue, InHand) ELSE queue
            /\ subscriberPc' = "streaming"
    /\ UNCHANGED <<verified, mempoolVars, ledgerVars, chain, pc, network_height,
                   height, fetched, genesis_sync_complete, subNext, delivered,
                   todo, blockLog, startSyncPc, joined, startPc, startJoined>>

\* lines 167-170: tx.send(blobs).await completes when the queue has room; it
\* is an error when the receiver is gone, and the task leaves its loop.
SubscriberSend ==
    /\ subscriberPc = "sending"
    /\ IF ReceiverDropped
       THEN /\ subscriberPc' = "ended"
            /\ UNCHANGED queue
       ELSE /\ Len(queue) < ChannelCapacity
            /\ queue' = Append(queue, InHand)
            /\ subscriberPc' = "streaming"
    /\ UNCHANGED <<verified, mempoolVars, ledgerVars, chain, pc, network_height,
                   height, fetched, genesis_sync_complete, subNext, delivered,
                   todo, blockLog, startSyncPc, joined, startPc, startJoined>>

\* line 163: next() yields None when the connection is gone.
SubscriberStreamEnds ==
    /\ subscriberPc = "streaming"
    /\ subscriberPc' = "ended"
    /\ UNCHANGED <<verified, mempoolVars, ledgerVars, chain, pc, network_height,
                   height, fetched, genesis_sync_complete, subNext, delivered,
                   queue, todo, blockLog, startSyncPc, joined, startPc,
                   startJoined>>

\* ---- process_tx called directly on a Ledger
LedgerProcessTx ==
    /\ startPc = "init"
    /\ Len(hist) < MaxHist
    /\ IF hist = <<>> THEN TRUE ELSE hist[Len(hist)].res # "panic"
    /\ \E tx \in TxSet :
          LET r == process_tx(state, tx)
          IN  /\ state' = r.st
              /\ hist' = Append(hist, [tx |-> tx, res |-> r.res])
    /\ UNCHANGED <<verified, mempoolVars, stateLock, syncVars>>

\* ---- queue_transaction, called by the request handlers of webserver.rs
\* line 87: a handler calls with a submission and asks for the mempool lock.
QueueTransactionCall(c) ==
    /\ enqPc[c] = "idle"
    /\ nextId <= MaxEnqueue
    /\ enqTx' = [enqTx EXCEPT ![c] = nextId]
    /\ nextId' = nextId + 1
    /\ enqPc' = [enqPc EXCEPT ![c] = "lock"]
    /\ overtaken' = IF flushPc = "submit" THEN overtaken \cup {nextId} ELSE overtaken
    /\ UNCHANGED <<verified, ledgerVars, syncVars, pending_transactions,
                   mempoolLock, flushPc, ticks, batch, drained, published,
                   failed, enqAt>>

\* line 88
QueueTransactionLock(c) ==
    /\ enqPc[c] = "lock"
    /\ mempoolLock = "free"
    /\ mempoolLock' = c
    /\ enqPc' = [enqPc EXCEPT ![c] = "push"]
    /\ UNCHANGED <<verified, ledgerVars, syncVars, pending_transactions, enqTx,
                   nextId, flushPc, ticks, batch, drained, published, failed,
                   enqAt, overtaken>>

\* lines 89-91: push, return, the guard is dropped.
QueueTransactionPush(c) ==
    /\ enqPc[c] = "push"
    /\ mempoolLock = c
    /\ pending_transactions' = Append(pending_transactions, enqTx[c])
    /\ enqAt' = [i \in (DOMAIN enqAt) \cup {enqTx[c]} |->
                   IF i = enqTx[c] THEN Len(drained) ELSE enqAt[i]]
    /\ mempoolLock' = "free"
    /\ enqPc' = [enqPc EXCEPT ![c] = "idle"]
    /\ UNCHANGED <<verified, ledgerVars, syncVars, enqTx, nextId, flushPc,
                   ticks, batch, drained, published, failed, overtaken>>

\* ---- start_batch_posting and post_pending_batch
\* lines 143-145: the interval ticks, again and again, and post_pending_batch
\* is called.
BatchTick ==
    /\ flushPc = "idle"
    /\ ticks' = IF ticks < MaxFlush THEN ticks + 1 ELSE ticks
    /\ flushPc' = "lock"
    /\ UNCHANGED <<verified, ledgerVars, syncVars, pending_transactions,
                   mempoolLock, enqPc, enqTx, nextId, batch, drained, published,
                   failed, enqAt, overtaken>>

\* line 94
PostPendingBatchLock ==
    /\ flushPc = "lock"
    /\ mempoolLock = "free"
    /\ mempoolLock' = "flush"
    /\ flushPc' = "check"
    /\ UNCHANGED <<verified, ledgerVars, syncVars, pending_transactions, enqPc,
                   enqTx, nextId, ticks, batch, drained, published, failed,
                   enqAt, overtaken>>

\* A drain that hands out the oldest submission and clears the list.
Drain_OldestOnly(p) == [batch |-> <<Head(p)>>, rest |-> <<>>]

\* A copy of the pending list that leaves the list as it is.
Drain_KeepsPending(p) == [batch |-> p, rest |-> p]

\* line 99: pending_txs.drain(..).collect() takes every element and leaves none.
Drain(p) == [batch |-> p, rest |-> <<>>]

\* A flush without the early return.
NothingPending_Never(p) == FALSE

\* line 95: pending_txs.is_empty()
NothingPending(p) == p = <<>>

\* lines 95-99
PostPendingBatchDrain ==
    /\ flushPc = "check"
    /\ mempoolLock = "flush"
    /\ IF NothingPending(pending_transactions)
       THEN /\ mempoolLock' = "free"
            /\ flushPc' = "idle"
            /\ UNCHANGED <<pending_transactions, batch, drained>>
       ELSE /\ batch' = Drain(pending_transactions).batch
            /\ pending_transactions' = Drain(pending_transactions).rest
            /\ drained' = Append(drained, batch')
            /\ flushPc' = "submit"
            /\ UNCHANGED mempoolLock
    /\ UNCHANGED <<verified, ledgerVars, syncVars, enqPc, enqTx, nextId, ticks,
                   published, failed, enqAt, overtaken>>

\* An error path that puts the drained batch back in front of the list.
OnSubmitError_Requeue(p, b) == b \o p

\* lines 100-103: each ? returns the error at once; the pending list stays as
\* drain left it and the batch is dropped with the call's frame.
OnSubmitError(p, b) == p

\* lines 100-107, with the lock still held: the blob is submitted, or one of
\* the three ? returns the error; start_batch_posting prints it (145-147) and
\* waits for the next tick.
PostPendingBatchSubmit ==
    /\ flushPc = "submit"
    /\ mempoolLock = "flush"
    /\ \/ /\ published' = Append(published, batch)
          /\ UNCHANGED <<pending_transactions, failed>>
       \/ /\ pending_transactions' = OnSubmitError(pending_transactions, batch)
          /\ failed' = failed \cup {Len(drained)}
          /\ UNCHANGED published
    /\ batch' = <<>>
    /\ mempoolLock' = "free"
    /\ flushPc' = "idle"
    /\ UNCHANGED <<verified, ledgerVars, syncVars, enqPc, enqTx, nextId, ticks,
                   drained, enqAt, overtaken>>

\* ---- the query handlers of webserver.rs, served once start has spawned the
\* server
QueryOps == {"list_channels", "read_channel"}

\* webserver.rs 23 and 31: node.state.lock().await
QueryLock(op) ==
    /\ startPc = "joining"
    /\ stateLock = "free"
    /\ stateLock' = op
    /\ UNCHANGED <<verified, mempoolVars, syncVars, state, hist>>

\* A read that leaves an empty entry behind for every channel it is asked for.
QueryReturn_CreatesChannel(op) ==
    /\ stateLock = op
    /\ stateLock' = "free"
    /\ \E ch \in ChannelNames :
          state' = IF op = "read_channel" /\ ~read_channel(state, ch).some
                   THEN [state EXCEPT !.channels = MapInsert(@, ch, <<>>)]
                   ELSE state
    /\ UNCHANGED <<verified, mempoolVars, syncVars, hist>>

\* webserver.rs 24 and 32: the handler answers with list_channels(state) or
\* read_channel(state, ch), both methods on &State, and drops the guard.
QueryReturn(op) ==
    /\ stateLock = op
    /\ stateLock' = "free"
    /\ UNCHANGED <<verified, mempoolVars, syncVars, state, hist>>

\* ---- Signature::verify called on its own
VerifyKeys == Keys \cup {ShortKey}
VerifySignatures == {tx.signature : tx \in TxSet} \cup {EmptySignature}
VerifyMessages == {Serialize(without_signature(tx)) : tx \in TxSet}

VerifyCall ==
    /\ \E sig \in VerifySignatures, pk \in VerifyKeys, msg \in VerifyMessages :
          verified' = <<[sig |-> sig, pk |-> pk, msg |-> msg,
                         res |-> SignatureVerify(sig, pk, msg)]>>
    /\ UNCHANGED <<ledgerVars, syncVars, mempoolVars>>

\* ---------------------------------------------------------- specifications
NextVerify == VerifyCall

NextLedger == LedgerProcessTx

NextSync ==
    \/ DaNewBlock
    \/ Start
    \/ StartSyncSpawn
    \/ \E t \in Tasks : StartSyncJoin(t)
    \/ StartJoinSync
    \/ \E t \in Tasks : ProcessL1BlockLock(t)
    \/ \E t \in Tasks : ProcessL1BlockApply(t)
    \/ \E t \in Tasks : ProcessL1BlockReturn(t)
    \/ GenesisQueryHead
    \/ GenesisFetch
    \/ GenesisStoreComplete
    \/ GenesisNotify
    \/ IncomingStart
    \/ IncomingRecv
    \/ IncomingRecvClosed
    \/ Subscribe
    \/ SubscriberNext
    \/ SubscriberSend
    \/ SubscriberStreamEnds

NextMempool ==
    \/ \E c \in Handlers : QueueTransactionCall(c)
    \/ \E c \in Handlers : QueueTransactionLock(c)
    \/ \E c \in Handlers : QueueTransactionPush(c)
    \/ BatchTick
    \/ PostPendingBatchLock
    \/ PostPendingBatchDrain
    \/ PostPendingBatchSubmit

SpecLedger == Init /\ [][NextLedger]_vars
SpecSync == Init /\ [][NextSync]_vars
SpecMempool == Init /\ [][NextMempool]_vars
SpecVerify == Init /\ [][NextVerify]_vars

\* The whole node: the sync engine, the query handlers and the mempool side.
\* The mempool and the Ledger share no field; the runs explored are those where
\* the sync engine and the queries act on a node whose mempool is untouched, and
\* those where the mempool side acts while the sync engine is not started.
NextQuery == \E op \in QueryOps : QueryLock(op) \/ QueryReturn(op)

MempoolUntouched == nextId = 1 /\ ticks = 0
SyncNotStarted == startPc = "init" /\ chain = <<>>

NextNode ==
    \/ MempoolUntouched /\ NextSync
    \/ MempoolUntouched /\ NextQuery
    \/ SyncNotStarted /\ NextMempool

SpecNode == Init /\ [][NextNode]_vars

\* Every spawned task is polled again whenever it can make progress.
SyncFairness ==
    /\ WF_vars(StartSyncSpawn)
    /\ \A t \in Tasks : WF_vars(StartSyncJoin(t))
    /\ WF_vars(StartJoinSync)
    /\ \A t \in Tasks : WF_vars(ProcessL1BlockLock(t))
    /\ \A t \in Tasks : WF_vars(ProcessL1BlockApply(t))
    /\ \A t \in Tasks : WF_vars(ProcessL1BlockReturn(t))
    /\ WF_vars(GenesisQueryHead)
    /\ WF_vars(GenesisFetch)
    /\ WF_vars(GenesisStoreComplete)
    /\ WF_vars(GenesisNotify)
    /\ WF_vars(IncomingStart)
    /\ WF_vars(IncomingRecv)
    /\ WF_vars(IncomingRecvClosed)
    /\ WF_vars(Subscribe)
    /\ WF_vars(SubscriberNext)
    /\ WF_vars(SubscriberSend)

FairSpecSync == SpecSync /\ SyncFairness

\* The interval keeps ticking, blob_submit returns, every task is polled when
\* it can go on, and the tokio Mutex hands the lock to its waiters in the order
\* they asked, so that a request handler is not passed over for ever by the
\* flushes. Nothing obliges a client to send a request.
MempoolFairness ==
    /\ WF_vars(BatchTick)
    /\ WF_vars(PostPendingBatchLock)
    /\ WF_vars(PostPendingBatchDrain)
    /\ WF_vars(PostPendingBatchSubmit)
    /\ \A c \in Handlers : SF_vars(QueueTransactionLock(c))
    /\ WF_vars(\E c \in Handlers : QueueTransactionPush(c))

FairSpecMempool == SpecMempool /\ MempoolFairness

\* -------------------------------------------------------------- properties
Last(q) == q[Len(q)]
Range(q) == {q[i] : i \in 1 .. Len(q)}
Rejections == {"user already exists", "user not yet registered"}

\* The process_tx call a step of the direct driver has just made.
Called == Len(hist') = Len(hist) + 1

\* ---- C2
RegisterThenSends(h) ==
    /\ Len(h) >= 1
    /\ h[1].tx.kind = "Register"
    /\ \A i \in 2 .. Len(h) :
          h[i].tx.kind = "SendMessage" /\ h[i].tx.user = h[1].tx.user

RECURSIVE SentTo(_, _, _)
SentTo(h, ch, id) ==
    IF h = <<>> THEN <<>>
    ELSE IF Head(h).tx.kind = "SendMessage" /\ Head(h).tx.channel = ch
         THEN <<Message(id, Head(h).tx.contents)>> \o SentTo(Tail(h), ch, id)
         ELSE SentTo(Tail(h), ch, id)

\* C2: from an empty Ledger, Register(u, id) followed by SendMessage(u, ...)
\* transactions leaves users[u] = id and every target channel holding exactly
\* the messages sent to it, in submission order, each tagged with id.
C2_RegisterThenSendBuildsChannels ==
    RegisterThenSends(hist) =>
        LET u == hist[1].tx.user
            id == hist[1].tx.id
        IN  /\ u \in DOMAIN state.users
            /\ state.users[u] = id
            /\ \A ch \in ChannelNames :
                  SentTo(hist, ch, id) # <<>> =>
                      /\ ch \in DOMAIN state.channels
                      /\ state.channels[ch] = SentTo(hist, ch, id)

\* ---- C8
\* C8: a Register for a key that is not in users succeeds and records the id;
\* a Register for a key that is in users (the second application, whatever its
\* id) is rejected as "user already exists" and leaves the Ledger as it was.
C8_RegisterTwice ==
    [][Called /\ Last(hist').tx.kind = "Register" =>
          LET tx == Last(hist').tx IN
          IF tx.user \in DOMAIN state.users
          THEN Last(hist').res = "user already exists" /\ state' = state
          ELSE /\ Last(hist').res = "ok"
               /\ state'.users = MapInsert(state.users, tx.user, tx.id)
               /\ state'.channels = state.channels]_vars

C8_Witness ==
    \E i, j \in 1 .. Len(hist) :
        /\ i < j
        /\ hist[i].tx.kind = "Register" /\ hist[j].tx.kind = "Register"
        /\ hist[i].tx.user = hist[j].tx.user
        /\ hist[i].tx.id # hist[j].tx.id
        /\ hist[i].res = "ok"
        /\ hist[j].res = "user already exists"
        /\ state.users[hist[i].tx.user] = hist[i].tx.id

\* ---- C9
\* C9: a SendMessage whose user is not in users is rejected as "user not yet
\* registered" and leaves users and channels unchanged.
C9_SendUnregistered ==
    [][Called /\ Last(hist').tx.kind = "SendMessage"
          /\ Last(hist').tx.user \notin DOMAIN state.users =>
              Last(hist').res = "user not yet registered" /\ state' = state]_vars

C9_Witness ==
    /\ hist # <<>>
    /\ Last(hist).tx.kind = "SendMessage"
    /\ Last(hist).res = "user not yet registered"
    /\ Last(hist).tx.user \notin DOMAIN state.users
    /\ DOMAIN state.users # {}
    /\ Last(hist).tx.channel \notin DOMAIN state.channels

\* ---- the sync engine's logs
Entries(t) == SelectSeq(blockLog, LAMBDA e : e.by = t)
Complete(e) == Len(e.results) = Len(e.txs)

\* The decoded size of a blob and the place of its first transaction in the
\* block, counted blob by blob.
BlobSize(blob) == IF blob.enc = "junk" THEN 0 ELSE Len(blob.txs)

RECURSIVE Offset(_, _)
Offset(blobs, b) == IF b = 1 THEN 0 ELSE Offset(blobs, b - 1) + BlobSize(blobs[b - 1])

InBlockOrder(txs, blobs) ==
    /\ Len(txs) = Offset(blobs, Len(blobs) + 1)
    /\ \A b \in 1 .. Len(blobs) : \A k \in 1 .. BlobSize(blobs[b]) :
          txs[Offset(blobs, b) + k] = blobs[b].txs[k]

\* ---- C1
\* C1: whenever the live-sync consumer has taken a block from its queue, the
\* catch-up task has already fetched every height of [start_height, H) and has
\* applied every transaction of each of them, earlier in the log.
C1_LiveAfterCatchUp ==
    \A i \in 1 .. Len(blockLog) :
        blockLog[i].by = "incoming" =>
            /\ network_height >= 1
            /\ \A h \in StartHeight .. (network_height - 1) :
                  /\ h \in Range(fetched)
                  /\ chain[h].some =>
                        \E j \in 1 .. (i - 1) :
                            /\ blockLog[j].by = "genesis"
                            /\ blockLog[j].height = h
                            /\ InBlockOrder(blockLog[j].txs, chain[h].blobs)
                            /\ Complete(blockLog[j])

C1_Witness ==
    /\ network_height >= StartHeight + 2
    /\ \E j \in 1 .. Len(blockLog) :
          blockLog[j].by = "genesis" /\ blockLog[j].results # <<>>
    /\ \E i \in 1 .. Len(blockLog) :
          blockLog[i].by = "incoming" /\ blockLog[i].results # <<>>

\* ---- C3
\* C3: every transaction process_tx accepted from the sync engine carries a
\* signature that verifies against its user key over the unsigned transaction.
C3_AppliedTransactionsVerify ==
    \A i \in 1 .. Len(blockLog) : \A k \in 1 .. Len(blockLog[i].results) :
        blockLog[i].results[k].res = "ok" => Verifies(blockLog[i].results[k].tx)

\* ---- C4
\* C4: catch-up asks for the heights start_height, start_height + 1, ... one
\* after the other and never for H or above; when its loop is over it has asked
\* for all of start_height .. H-1; it calls process_l1_block exactly for the
\* fetched heights that carry blobs, in that order, and hands the transactions
\* to process_tx by blob position and then position in the batch, a block being
\* finished before the next height is fetched.
C4_CatchUpOrder ==
    LET g == Entries("genesis")
        withBlobs == SelectSeq(fetched, LAMBDA h : chain[h].some)
    IN  /\ \A i \in 1 .. Len(fetched) :
              fetched[i] = StartHeight + i - 1 /\ fetched[i] < network_height
        /\ pc["genesis"] \in {"notify", "done"} =>
              Range(fetched) = {h \in 1 .. MaxHead + 1 :
                                   StartHeight <= h /\ h < network_height}
        /\ Len(g) = Len(withBlobs)
        /\ \A i \in 1 .. Len(g) :
              /\ g[i].height = withBlobs[i]
              /\ InBlockOrder(g[i].txs, chain[g[i].height].blobs)
              /\ Len(g[i].results) <= Len(g[i].txs)
              /\ \A k \in 1 .. Len(g[i].results) : g[i].results[k].tx = g[i].txs[k]
              /\ i < Len(g) => Complete(g[i])

C4_Witness ==
    /\ pc["genesis"] = "done"
    /\ network_height = StartHeight + 2
    /\ Len(fetched) = 2
    /\ ~chain[StartHeight].some
    /\ Len(Entries("genesis")) = 1
    /\ Len(Entries("genesis")[1].results) = 3
    /\ Len(chain[StartHeight + 1].blobs) = 2

\* ---- C6
\* C6: once catch-up has completed and fired the signal, the live-sync
\* consumer eventually is past its wait.
C6_SignalReleasesConsumer ==
    (pc["genesis"] = "done") ~> (pc["incoming"] \notin {"start", "waiting"})

\* ---- C7
\* C7: when try_join! of start_sync has taken the output of a catch-up task
\* whose network-head query failed, or of a live-sync task whose subscription
\* handshake failed, start_sync has ended with an error; and when start has
\* taken the error of start_sync, start has ended with an error.
C7_SetupFailureEndsStart ==
    /\ ("genesis" \in joined /\ pc["genesis"] = "failed" /\ network_height = 0)
          => startSyncPc = "err"
    /\ ("incoming" \in joined /\ subscriberPc = "panicked") => startSyncPc = "err"
    /\ ("sync" \in startJoined /\ startSyncPc = "err") => startPc = "err"

\* ---- C10
\* C10: in every process_l1_block call the transactions are handed to
\* process_tx in block order, and a rejected transaction is followed by the
\* next transaction of the block: the rest of the block is either already
\* submitted or is what the task, still in its loop with the lock, submits
\* next; after a block whose last transaction was rejected the task has gone on
\* to the next height or queue item.
C10_RejectionDoesNotStopBlock ==
    \A i \in 1 .. Len(blockLog) :
        LET e == blockLog[i]
            n == Len(e.results)
            current == /\ \A j \in (i + 1) .. Len(blockLog) : blockLog[j].by # e.by
                       /\ pc[e.by] = "apply"
        IN  /\ n <= Len(e.txs)
            /\ \A k \in 1 .. n : e.results[k].tx = e.txs[k]
            /\ \A k \in 1 .. n :
                  e.results[k].res \in Rejections =>
                      \/ k < n
                      \/ /\ current
                         /\ stateLock = e.by
                         /\ todo[e.by] = SubSeq(e.txs, k + 1, Len(e.txs))
                      \/ /\ k = Len(e.txs)
                         /\ ~current
                         /\ pc[e.by] # "panicked"
                               \/ \E j \in (i + 1) .. Len(blockLog) : blockLog[j].by = e.by
                         /\ e.by = "genesis" => height > e.height

C10_Witness ==
    \E i \in 1 .. Len(blockLog) :
        LET e == blockLog[i] IN
        /\ Len(e.results) = 3
        /\ e.results[1].res = "ok"
        /\ e.results[2].res \in Rejections
        /\ e.results[3].res = "ok"
        /\ e.by = "genesis"
        /\ height > e.height
        /\ \E j \in 1 .. Len(blockLog) :
              /\ blockLog[j].by = "incoming"
              /\ Len(blockLog[j].results) = 2
              /\ blockLog[j].results[1].res \in Rejections
              /\ blockLog[j].results[2].res \in Rejections

\* ---- C5
CountIn(q, x) == Cardinality({i \in 1 .. Len(q) : q[i] = x})

RECURSIVE CountInAll(_, _)
CountInAll(qs, x) ==
    IF qs = <<>> THEN 0 ELSE CountIn(Head(qs), x) + CountInAll(Tail(qs), x)

\* C5: every submission whose push has completed is, at every moment, either
\* once in the pending list or once in exactly one drained batch; a drained
\* batch holds only pushed submissions; and a submission pushed after b batches
\* were drained is in batch b + 1, the next one drained, never in an earlier one.
C5_DrainIsAtomic ==
    /\ \A id \in DOMAIN enqAt :
          /\ CountIn(pending_transactions, id) + CountInAll(drained, id) = 1
          /\ \A b \in 1 .. Len(drained) :
                CountIn(drained[b], id) > 0 => b = enqAt[id] + 1
    /\ \A b \in 1 .. Len(drained) : Range(drained[b]) \subseteq DOMAIN enqAt

C5_Witness ==
    /\ Len(drained) = 2
    /\ Len(drained[1]) = 2
    /\ \E id \in overtaken : CountIn(drained[2], id) = 1 /\ enqAt[id] = 1

\* ---- C11
\* What one blob adds to its block: the transactions of its Batch, the one
\* Transaction it encodes, or nothing when it is neither.
Contribution(blob) ==
    IF blob.enc = "batch" THEN blob.txs
    ELSE IF blob.enc = "tx" THEN <<blob.txs[1]>>
    ELSE <<>>

\* C11: every process_l1_block call, of catch-up and of live sync, works on the
\* concatenation, in blob order, of what each blob of its height contributes: a
\* Batch its transactions, a lone Transaction a one-element batch, any other
\* payload nothing; the call is made even when a blob of the height does not
\* decode, and the transactions are handed to process_tx in that order.
C11_UndecodableBlobSkipped ==
    \A i \in 1 .. Len(blockLog) :
        LET e == blockLog[i]
            blobs == chain[e.height].blobs
        IN  /\ chain[e.height].some
            /\ Len(e.txs) = Offset(blobs, Len(blobs) + 1)
            /\ \A b \in 1 .. Len(blobs) :
                  SubSeq(e.txs, Offset(blobs, b) + 1, Offset(blobs, b + 1))
                      = Contribution(blobs[b])
            /\ \A k \in 1 .. Len(e.results) : e.results[k].tx = e.txs[k]

C11_Witness ==
    \E i, j \in 1 .. Len(blockLog) :
        /\ chain[blockLog[i].height].blobs[1] = ForeignBlob
        /\ Len(chain[blockLog[i].height].blobs) = 2
        /\ Len(blockLog[i].txs) = 3
        /\ blockLog[i].results # <<>>
        /\ blockLog[i].results[1].tx = chain[blockLog[i].height].blobs[2].txs[1]
        /\ blockLog[i].by = "incoming"
        /\ chain[blockLog[j].height].blobs[2].enc = "tx"
        /\ Len(blockLog[j].results) = 3
        /\ blockLog[j].results[3].tx = chain[blockLog[j].height].blobs[2].txs[1]

\* ---- C12
\* C12: the submissions of a batch whose publication failed are in the pending
\* list no more, in no other drained batch and in no published batch; the flush
\* that failed has returned to the timer loop with the lock released, or a later
\* flush is under way; and every batch drained after the failed one holds only
\* submissions pushed after the failed batch was drained.
C12_FailedBatchIsDropped ==
    \A b \in failed :
        /\ b \in 1 .. Len(drained)
        /\ \A id \in Range(drained[b]) :
              /\ CountIn(pending_transactions, id) = 0
              /\ \A c \in 1 .. Len(drained) : c # b => CountIn(drained[c], id) = 0
              /\ \A k \in 1 .. Len(published) : CountIn(published[k], id) = 0
        /\ b = Len(drained) => flushPc \in {"idle", "lock", "check"}
        /\ flushPc = "idle" => mempoolLock # "flush"
        /\ \A c \in (b + 1) .. Len(drained) :
              \A id \in Range(drained[c]) : enqAt[id] >= b

C12_Witness ==
    /\ failed = {1}
    /\ Len(drained) = 2
    /\ published = <<drained[2]>>
    /\ \E id \in Range(drained[2]) : id \notin overtaken /\ enqAt[id] = 1
    /\ flushPc = "idle"

\* ---- C13
\* C13: a flush that finds the pending list empty returns to the timer loop and
\* releases the lock with the pending list, the drained and published batches
\* and the failures as they were; a flush that goes on to publish carries a
\* batch of at least one submission, and what blob_submit accepts is that batch.
C13_NoEmptyBatch ==
    [][/\ (flushPc = "check" /\ flushPc' # "check") =>
             IF pending_transactions = <<>>
             THEN /\ flushPc' = "idle"
                  /\ mempoolLock' = "free"
                  /\ UNCHANGED <<pending_transactions, batch, drained, published,
                                 failed>>
             ELSE /\ flushPc' = "submit"
                  /\ batch' # <<>>
                  /\ drained' = Append(drained, batch')
       /\ published' # published =>
             /\ flushPc = "submit"
             /\ batch # <<>>
             /\ published' = Append(published, batch)]_vars

C13_Witness ==
    /\ ticks = 2
    /\ flushPc = "idle"
    /\ Len(drained) = 1
    /\ published = drained
    /\ pending_transactions = <<>>
    /\ nextId > MaxEnqueue
    /\ \A c \in Handlers : enqPc[c] = "idle"

\* ---- C14
\* C14: a verify call whose public key is not 32 bytes long, or whose signature
\* is not 64 bytes long, returns false.
C14_VerifyFailsClosed ==
    \A i \in 1 .. Len(verified) :
        (PublicKeyLen(verified[i].pk) # 32 \/ verified[i].sig.len # 64)
            => verified[i].res = "false"

\* ---- C16
IsPrefix(p, q) == Len(p) <= Len(q) /\ SubSeq(q, 1, Len(p)) = p

\* C16: across every process_tx call, whatever it returns, each key of users
\* is still a key of users with the same display name, each channel is still a
\* channel, and the messages a channel held are a prefix of those it holds.
C16_LedgerOnlyGrows ==
    [][Called =>
          /\ \A u \in DOMAIN state.users :
                u \in DOMAIN state'.users /\ state'.users[u] = state.users[u]
          /\ \A ch \in DOMAIN state.channels :
                /\ ch \in DOMAIN state'.channels
                /\ IsPrefix(state.channels[ch], state'.channels[ch])]_vars

C16_Witness ==
    /\ Len(hist) = 3
    /\ hist[1].tx.kind = "Register" /\ hist[1].res = "ok"
    /\ hist[2].tx.kind = "Register" /\ hist[2].res = "user already exists"
    /\ hist[2].tx.id # hist[1].tx.id
    /\ hist[3].tx.kind = "Register" /\ hist[3].res = "ok"
    /\ state.users[hist[1].tx.user] = hist[1].tx.id
    /\ Cardinality(DOMAIN state.users) = 2

\* ---- C19
\* C19: every process_tx call the sync engine makes returns success or one of
\* the two rejections, and neither sync task is ended by a panic.
C19_ProcessTxIsTotal ==
    /\ \A i \in 1 .. Len(blockLog) : \A k \in 1 .. Len(blockLog[i].results) :
          blockLog[i].results[k].res \in {"ok"} \cup Rejections
    /\ \A t \in Tasks : pc[t] # "panicked"

\* ---- C15
\* C15: a step that changes the Ledger is a process_tx call that returned Ok,
\* made inside process_l1_block by the sync task that holds the Ledger lock; a
\* step of queue_transaction or post_pending_batch, a step of a query handler,
\* and a process_tx call that validate_tx rejected leave users and channels as
\* they were.
C15_LedgerFrame ==
    [][/\ state' # state =>
             /\ stateLock \in Tasks
             /\ pc[stateLock] = "apply"
             /\ Len(blockLog') = Len(blockLog)
             /\ Last(blockLog').by = stateLock
             /\ Last(blockLog').results =
                    Append(Last(blockLog).results,
                           [tx |-> Head(todo[stateLock]), res |-> "ok"])
             /\ validate_tx(state, Head(todo[stateLock])) = "ok"
       /\ (\/ mempoolVars' # mempoolVars
           \/ stateLock \in QueryOps
           \/ stateLock' \in QueryOps) => state' = state]_vars

C15_Witness ==
    /\ stateLock = "read_channel"
    /\ DOMAIN state.users # {}
    /\ list_channels(state) = {}
    /\ ~read_channel(state, "general").some
    /\ \E i \in 1 .. Len(blockLog) : \E k \in 1 .. Len(blockLog[i].results) :
          blockLog[i].results[k].res \in Rejections
    /\ \E t \in Tasks : pc[t] = "lock"

\* ---- C17
HeightsOf(q) == [i \in 1 .. Len(q) |-> q[i].height]

\* C17: the queue never holds more than its capacity; while the consumer
\* exists, every height-batch the stream has yielded is exactly once in the
\* consumer's calls, in the queue, or in the hand of the subscription task; and
\* with a full queue the task that holds a batch cannot complete its send.
C17_BackpressureNotDrop ==
    /\ Len(queue) <= ChannelCapacity
    /\ ~ReceiverDropped =>
          \A i \in 1 .. Len(delivered) :
              CountIn(HeightsOf(Entries("incoming")), delivered[i].height)
              + CountIn(HeightsOf(queue), delivered[i].height)
              + (IF subscriberPc = "sending" /\ i = Len(delivered) THEN 1 ELSE 0) = 1
    /\ (subscriberPc = "sending" /\ Len(queue) = ChannelCapacity /\ ~ReceiverDropped)
          => ~ENABLED SubscriberSend

C17_Witness ==
    \E i \in 1 .. Len(delivered) :
        /\ delivered[i].queueFull
        /\ delivered[i].beforeSignal
        /\ \E j \in 1 .. Len(blockLog) :
              /\ blockLog[j].by = "incoming"
              /\ blockLog[j].height = delivered[i].height
              /\ blockLog[j].results # <<>>

\* ---- C18
\* C18: the live-sync consumer's process_l1_block calls are made after the
\* signal, for the heights the stream yielded, in the order it yielded them
\* and none of them twice, each call finished before the next is made, whether
\* the stream yielded the height before or after catch-up completed.
C18_LiveSyncInDeliveryOrder ==
    LET inc == Entries("incoming") IN
    /\ Len(inc) <= Len(delivered)
    /\ \A i \in 1 .. Len(inc) :
          /\ inc[i].height = delivered[i].height
          /\ i < Len(inc) => Complete(inc[i])
          /\ \A j \in 1 .. Len(inc) : inc[i].height = inc[j].height => i = j
    /\ inc # <<>> => genesis_sync_complete /\ pc["genesis"] = "done"

C18_Witness ==
    /\ Len(Entries("incoming")) = 2
    /\ Complete(Entries("incoming")[1])
    /\ Complete(Entries("incoming")[2])
    /\ delivered[1].beforeSignal
    /\ delivered[2].beforeSignal

\* ---- C20
\* Catch-up is over, the stream has yielded every height of the chain and the
\* consumer has emptied the queue.
SyncQuiescent ==
    /\ pc["genesis"] = "done"
    /\ pc["incoming"] = "recv"
    /\ queue = <<>>
    /\ subscriberPc = "streaming"
    /\ subNext > Len(chain)

\* C20: once both phases have done all they will do for the chain as it is,
\* every height from start_height on that carries blobs has a finished
\* process_l1_block call, of catch-up or of live sync.
C20_EveryHeightApplied ==
    SyncQuiescent =>
        \A h \in StartHeight .. Len(chain) :
            chain[h].some =>
                \E i \in 1 .. Len(blockLog) :
                    blockLog[i].height = h /\ Complete(blockLog[i])

\* ---- C21
\* A block of which one transaction has changed the Ledger while another has
\* not been applied: it was not handed to process_tx, or its call did not return.
PartlyApplied(e) ==
    /\ \E k \in 1 .. Len(e.results) : e.results[k].res = "ok"
    /\ \/ Len(e.results) < Len(e.txs)
       \/ \E k \in 1 .. Len(e.results) : e.results[k].res = "panic"

\* C21: while a query handler holds the Ledger lock, and so reads the Ledger,
\* no block of the DA layer is partly applied.
C21_ReadsSeeWholeBlocks ==
    stateLock \in QueryOps =>
        \A i \in 1 .. Len(blockLog) : ~PartlyApplied(blockLog[i])

\* ---- C22
\* C22: under MempoolFairness, every submission whose push has completed is
\* eventually in a drained batch, the batch post_pending_batch goes on to
\* publish; and every queue_transaction call that waits for the mempool lock
\* while a flush holds it eventually has pushed and returned.
C22_EnqueuedIsEventuallyFlushed ==
    /\ \A id \in 1 .. MaxEnqueue :
          (id \in DOMAIN enqAt) ~> (CountInAll(drained, id) = 1)
    /\ \A c \in Handlers :
          (enqPc[c] = "lock" /\ mempoolLock = "flush") ~> (enqPc[c] = "idle")

C22_Witness ==
    /\ ticks = MaxFlush
    /\ pending_transactions = <<>>
    /\ DOMAIN enqAt = 1 .. MaxEnqueue
    /\ \A id \in 1 .. MaxEnqueue : CountInAll(drained, id) = 1
    /\ \E id \in overtaken : enqAt[id] = Len(drained) - 1
    /\ mempoolLock = "free"

====
